---- MODULE Spec2Model ----
(***************************************************************************)
(* Territory loading, colouring and click lookup of src/main.ts.           *)
(*                                                                         *)
(* A JavaScript string is a sequence of one-character strings, so that     *)
(* split, trim, slice, startsWith, toUpperCase and toLowerCase are         *)
(* computed character by character as the code computes them.  The value   *)
(* `undefined` of an optional string (a missing table entry, the result of *)
(* a failed find) is the empty sequence: every identifier the code stores  *)
(* is non-empty (main.ts:141), and the only test the code applies to such  *)
(* a value is `??` followed by `!tid`.                                     *)
(***************************************************************************)
EXTENDS Integers, Sequences, FiniteSets, TLC

\* ------------------------------------------------------------------ bounds
\* Data lines of a fetched territories.csv (after the header line).
MaxRows == 2
\* Characters that follow a stem in a feature's district code.
MaxSuffixLen == 1

\* ------------------------------------------------------- string primitives
LOWER == <<"a","b","c","d","e","f","g","h","i","j","k","l","m","n","o","p","q","r","s","t","u","v","w","x","y","z">>
\* main.ts:33
LETTERS == <<"A","B","C","D","E","F","G","H","I","J","K","L","M","N","O","P","Q","R","S","T","U","V","W","X","Y","Z">>
\* main.ts:34, LETTERS.split(''): the one-character strings of LETTERS
AtoZ == [i \in 1..Len(LETTERS) |-> <<LETTERS[i]>>]

IndexIn(ch, alphabet) ==
  IF \E i \in 1..Len(alphabet) : alphabet[i] = ch
  THEN CHOOSE i \in 1..Len(alphabet) : alphabet[i] = ch
  ELSE 0

UpChar(ch) == IF IndexIn(ch, LOWER) > 0 THEN LETTERS[IndexIn(ch, LOWER)] ELSE ch
LowChar(ch) == IF IndexIn(ch, LETTERS) > 0 THEN LOWER[IndexIn(ch, LETTERS)] ELSE ch

toUpperCase(s) == [i \in 1..Len(s) |-> UpChar(s[i])]
toLowerCase(s) == [i \in 1..Len(s) |-> LowChar(s[i])]

\* s.slice(from, to) for 0 <= from, with to clamped to the length
slice(s, from, to) ==
  LET hi == IF to > Len(s) THEN Len(s) ELSE to
  IN  IF from >= hi THEN <<>> ELSE SubSeq(s, from + 1, hi)

sliceFrom(s, from) == slice(s, from, Len(s))

startsWith(s, p) == Len(p) <= Len(s) /\ SubSeq(s, 1, Len(p)) = p
endsWith(s, p) == Len(p) <= Len(s) /\ SubSeq(s, Len(s) - Len(p) + 1, Len(s)) = p

\* s[i] with a 0-based index; undefined (here <<>>) outside the string
charAt(s, i) == IF i >= 0 /\ i < Len(s) THEN <<s[i + 1]>> ELSE <<>>

\* String.prototype.includes: the empty string is included in every string
includes(s, sub) ==
  \E i \in 0..Len(s) : i + Len(sub) <= Len(s) /\ slice(s, i, i + Len(sub)) = sub

RECURSIVE trimStart(_)
trimStart(s) == IF s # <<>> /\ Head(s) = " " THEN trimStart(Tail(s)) ELSE s
RECURSIVE trimEnd(_)
trimEnd(s) ==
  IF s # <<>> /\ s[Len(s)] = " " THEN trimEnd(SubSeq(s, 1, Len(s) - 1)) ELSE s
trim(s) == trimEnd(trimStart(s))

\* s.lastIndexOf(ch), 0-based, -1 when absent
lastIndexOf(s, ch) ==
  IF \E i \in 1..Len(s) : s[i] = ch
  THEN (CHOOSE i \in 1..Len(s) : s[i] = ch /\ \A j \in (i + 1)..Len(s) : s[j] # ch) - 1
  ELSE -1

\* s.split(sep) for a one-character separator: always at least one piece
RECURSIVE split(_, _)
split(s, sep) ==
  IF \E i \in 1..Len(s) : s[i] = sep
  THEN LET k == CHOOSE i \in 1..Len(s) : s[i] = sep /\ \A j \in 1..(i - 1) : s[j] # sep
       IN  <<SubSeq(s, 1, k - 1)>> \o split(SubSeq(s, k + 1, Len(s)), sep)
  ELSE <<s>>

\* parts.join(sep)
RECURSIVE join(_, _)
join(parts, sep) ==
  IF parts = <<>> THEN <<>>
  ELSE IF Len(parts) = 1 THEN parts[1]
  ELSE parts[1] \o <<sep>> \o join(Tail(parts), sep)

\* array.filter(Boolean) on strings: drops the empty ones
filterNonEmpty(xs) == SelectSeq(xs, LAMBDA x : x # <<>>)

\* array[i] ?? '' with a 0-based index (a negative index is undefined too)
cell(parts, i) == IF i >= 0 /\ i < Len(parts) THEN parts[i + 1] ELSE <<>>

\* array.indexOf(x), 0-based, -1 when absent
indexOf(xs, x) ==
  IF \E i \in 1..Len(xs) : xs[i] = x
  THEN (CHOOSE i \in 1..Len(xs) : xs[i] = x /\ \A j \in 1..(i - 1) : xs[j] # x) - 1
  ELSE -1

\* ---------------------------------------------------------------- Number()
DIGITS == <<"0","1","2","3","4","5","6","7","8","9">>
isDigits(s) == \A i \in 1..Len(s) : IndexIn(s[i], DIGITS) > 0

RECURSIVE digitsValue(_)
digitsValue(s) ==
  IF s = <<>> THEN 0
  ELSE 10 * digitsValue(SubSeq(s, 1, Len(s) - 1)) + (IndexIn(s[Len(s)], DIGITS) - 1)

\* Number(str) on a trimmed string over digits, sign, decimal point and other
\* characters: '' is 0, [+-]digits[.digits] and [+-].digits are numbers,
\* anything else is NaN.  kind "int": the integer val; kind "frac": a number
\* that is no integer (integer part val, decimals frac); kind "nan": NaN.
Number(str) ==
  LET signed == str # <<>> /\ Head(str) \in {"-", "+"}
      neg    == str # <<>> /\ Head(str) = "-"
      body   == IF signed THEN Tail(str) ELSE str
      dot    == indexOf(body, ".")
      ip     == IF dot < 0 THEN body ELSE slice(body, 0, dot)
      fp     == IF dot < 0 THEN <<>> ELSE sliceFrom(body, dot + 1)
      wellFormed == isDigits(ip) /\ isDigits(fp) /\ (ip # <<>> \/ fp # <<>>)
      mag    == digitsValue(ip)
  IN  IF str = <<>> THEN [kind |-> "int", val |-> 0, frac |-> <<>>]
      ELSE IF ~wellFormed THEN [kind |-> "nan", val |-> 0, frac |-> <<>>]
      ELSE IF digitsValue(fp) = 0
           THEN [kind |-> "int", val |-> IF neg THEN 0 - mag ELSE mag, frac |-> <<>>]
           ELSE [kind |-> "frac", val |-> IF neg THEN 0 - mag ELSE mag, frac |-> fp]

\* ------------------------------------------------------------------- state
VARIABLES
  pc,                 \* "loading" | "compiled" | "wired" | "fallback"
  header,             \* main.ts:104, the header line ('' before a load reads one)
  territories,        \* main.ts:130
  codeToTidExact,     \* main.ts:131, own properties in insertion order
  letterPrefixToTid,  \* main.ts:132
  anyPrefixToTid,     \* main.ts:133
  tidToMetrics,       \* main.ts:134
  tidToTokens,        \* main.ts:135
  tidToStatus,        \* main.ts:136
  paint,              \* fill-color and fill-opacity of every postcode fill layer
  handlers,           \* click handlers wired on the fill layers
  popup               \* what the popup shows

vars == <<pc, header, territories, codeToTidExact, letterPrefixToTid, anyPrefixToTid,
          tidToMetrics, tidToTokens, tidToStatus, paint, handlers, popup>>

\* The rule tables a load builds (main.ts:130-136).
tables == <<territories, codeToTidExact, letterPrefixToTid, anyPrefixToTid,
            tidToMetrics, tidToTokens, tidToStatus>>

\* ------------------------------------------------------------ JS objects
\* A Record<string, V> that is only indexed: a function on its keys.
objPut(obj, key, val) ==
  [k \in (DOMAIN obj) \cup {key} |-> IF k = key THEN val ELSE obj[k]]

\* Variant of exactPut that keeps the first territory of a code (C10 must
\* tell it from the code's assignment).
exactPut_KeepFirst(entries, code, tid) ==
  IF \E i \in 1..Len(entries) : entries[i].code = code
  THEN entries
  ELSE Append(entries, [code |-> code, tid |-> tid])

\* codeToTidExact[c] = id: an existing property keeps its place and takes the
\* new value, a new one is appended (the order Object.entries lists them in).
exactPut(entries, code, tid) ==
  IF \E i \in 1..Len(entries) : entries[i].code = code
  THEN [i \in 1..Len(entries) |->
          IF entries[i].code = code THEN [code |-> code, tid |-> tid] ELSE entries[i]]
  ELSE Append(entries, [code |-> code, tid |-> tid])

\* codeToTidExact[code]: the tid, or undefined
exactGet(entries, code) ==
  IF \E i \in 1..Len(entries) : entries[i].code = code
  THEN entries[CHOOSE i \in 1..Len(entries) : entries[i].code = code].tid
  ELSE <<>>

RECURSIVE exactPutAll(_, _, _)
exactPutAll(entries, codes, tid) ==
  IF codes = <<>> THEN entries
  ELSE exactPutAll(exactPut(entries, Head(codes), tid), Tail(codes), tid)

\* for (const p of prefixes) list.push({ prefix: p, tid: id })
pushAll(list, prefixes, tid) ==
  list \o [i \in 1..Len(prefixes) |-> [prefix |-> prefixes[i], tid |-> tid]]

\* --------------------------------------------------------- header (104-121)
ALIASES ==
  [id     |-> << <<"t","e","r","r","i","t","o","r","y","_","i","d">>, <<"i","d">> >>,
   region |-> << <<"r","e","g","i","o","n">> >>,
   pfx    |-> << <<"p","o","s","t","c","o","d","e","_","p","r","e","f","i","x","e","s">>, <<"p","o","s","t","c","o","d","e","s">>, <<"p","r","e","f","i","x","e","s">> >>,
   pop    |-> << <<"e","s","t","i","m","a","t","e","d","_","p","o","p","u","l","a","t","i","o","n">>, <<"p","o","p","u","l","a","t","i","o","n">>, <<"p","o","p">> >>,
   biz    |-> << <<"i","n","d","i","c","a","t","i","v","e","_","b","u","s","i","n","e","s","s","_","c","o","u","n","t">>, <<"b","u","s","i","n","e","s","s","e","s">>, <<"b","i","z">>, <<"b","u","s","i","n","e","s","s","_","c","o","u","n","t">> >>,
   inc    |-> << <<"a","v","e","r","a","g","e","_","h","o","u","s","e","h","o","l","d","_","i","n","c","o","m","e">>, <<"i","n","c","o","m","e">>, <<"a","v","g","_","i","n","c","o","m","e">> >>,
   stat   |-> << <<"s","t","a","t","u","s">> >>]

\* header.split(',').map(h => h.trim().toLowerCase())
headerCols(hdr) ==
  LET hs == split(hdr, ",")
  IN  [i \in 1..Len(hs) |-> toLowerCase(trim(hs[i]))]

\* names.map(n => cols.indexOf(n)).find(i => i >= 0) ?? -1
idx(cols, names) ==
  IF \E k \in 1..Len(names) : indexOf(cols, names[k]) >= 0
  THEN indexOf(cols, names[CHOOSE k \in 1..Len(names) :
                             /\ indexOf(cols, names[k]) >= 0
                             /\ \A j \in 1..(k - 1) : indexOf(cols, names[j]) < 0])
  ELSE -1

columnIndexes(hdr) ==
  LET cols == headerCols(hdr)
  IN  [iId   |-> idx(cols, ALIASES.id),
       iReg  |-> idx(cols, ALIASES.region),
       iPfx  |-> idx(cols, ALIASES.pfx),
       iPop  |-> idx(cols, ALIASES.pop),
       iBiz  |-> idx(cols, ALIASES.biz),
       iInc  |-> idx(cols, ALIASES.inc),
       iStat |-> idx(cols, ALIASES.stat)]

\* Variant of the required-column check that fails only when both columns are
\* missing (C6 must tell it from the code's check).
missingRequired_Both(ix) == ix.iId < 0 /\ ix.iPfx < 0

\* main.ts:118, the required-column check
missingRequired(ix) == ix.iId < 0 \/ ix.iPfx < 0

\* ------------------------------------------------------ one row (138-200)
\* main.ts:146-171: income and status of a row
incomeStatus(ix, parts) ==
  LET incomeAndStatus ==
        IF ix.iInc >= 0 THEN trim(join(sliceFrom(parts, ix.iInc), ","))
        ELSE IF ix.iBiz >= 0 THEN trim(join(sliceFrom(parts, ix.iBiz + 1), ","))
        ELSE <<>>
      status0 == IF ix.iStat >= 0 THEN trim(cell(parts, ix.iStat)) ELSE <<>>
      lastComma == lastIndexOf(incomeAndStatus, ",")
      r == IF status0 = <<>> /\ incomeAndStatus # <<>>
           THEN IF ix.iStat >= 0 /\ lastComma >= 0
                THEN [income |-> trim(slice(incomeAndStatus, 0, lastComma)),
                      status |-> trim(sliceFrom(incomeAndStatus, lastComma + 1))]
                ELSE [income |-> incomeAndStatus, status |-> status0]
           ELSE IF ix.iInc >= 0
                THEN [income |-> trim(cell(parts, ix.iInc)), status |-> status0]
                ELSE [income |-> <<>>, status |-> status0]
      status == IF r.status = <<>> THEN <<"a","v","a","i","l","a","b","l","e">> ELSE r.status
  IN  [income |-> r.income, status |-> toLowerCase(status)]

\* main.ts:174, pfxRaw.replace(/^"(.*)"$/, '$1')
stripQuotes(pfxRaw) ==
  IF Len(pfxRaw) >= 2 /\ pfxRaw[1] = "\"" /\ pfxRaw[Len(pfxRaw)] = "\""
  THEN SubSeq(pfxRaw, 2, Len(pfxRaw) - 1)
  ELSE pfxRaw

\* main.ts:175, pfx.split('|').map(s => s.trim().toUpperCase()).filter(Boolean)
splitTokens(pfx) ==
  LET ts == split(pfx, "|")
  IN  filterNonEmpty([i \in 1..Len(ts) |-> toUpperCase(trim(ts[i]))])

\* main.ts:181-185, the three kinds of token, the marker stripped
isLetterToken(tok) == endsWith(tok, <<"+">>)
isAnyToken(tok) == ~endsWith(tok, <<"+">>) /\ endsWith(tok, <<"*">>)
stripMarker(tok) == slice(tok, 0, Len(tok) - 1)

letterPrefixesOf(tokens) ==
  LET ts == SelectSeq(tokens, isLetterToken)
  IN  [i \in 1..Len(ts) |-> stripMarker(ts[i])]
anyPrefixesOf(tokens) ==
  LET ts == SelectSeq(tokens, isAnyToken)
  IN  [i \in 1..Len(ts) |-> stripMarker(ts[i])]
exactsOf(tokens) ==
  SelectSeq(tokens, LAMBDA tok : ~isLetterToken(tok) /\ ~isAnyToken(tok))

\* main.ts:197, for (const c of exacts) codeToTidExact[c] = id
registerExacts(entries, exacts, id) == exactPutAll(entries, exacts, id)

\* The tables as one value, threaded through the loop over the lines.
EmptyTables ==
  [territories |-> <<>>, codeToTidExact |-> <<>>, letterPrefixToTid |-> <<>>,
   anyPrefixToTid |-> <<>>, tidToMetrics |-> <<>>, tidToTokens |-> <<>>,
   tidToStatus |-> <<>>]

\* main.ts:138-200, the body of the loop for one line
compileRow(ix, tb, raw) ==
  LET parts  == split(raw, ",")
      id     == trim(cell(parts, ix.iId))
      region == trim(cell(parts, ix.iReg))
      pfxRaw == trim(cell(parts, ix.iPfx))
      popStr == IF ix.iPop >= 0 THEN trim(cell(parts, ix.iPop)) ELSE <<>>
      bizStr == IF ix.iBiz >= 0 THEN trim(cell(parts, ix.iBiz)) ELSE <<>>
      is     == incomeStatus(ix, parts)
      tokens == splitTokens(stripQuotes(pfxRaw))
      t == [id |-> id, region |-> region,
            exacts |-> exactsOf(tokens),
            letterPrefixes |-> letterPrefixesOf(tokens),
            anyPrefixes |-> anyPrefixesOf(tokens),
            pop |-> Number(popStr), biz |-> Number(bizStr),
            income |-> is.income, tokens |-> tokens, status |-> is.status]
  IN  IF id = <<>> THEN tb
      ELSE [territories |-> Append(tb.territories, t),
            codeToTidExact |-> registerExacts(tb.codeToTidExact, t.exacts, id),
            letterPrefixToTid |-> pushAll(tb.letterPrefixToTid, t.letterPrefixes, id),
            anyPrefixToTid |-> pushAll(tb.anyPrefixToTid, t.anyPrefixes, id),
            tidToMetrics |-> objPut(tb.tidToMetrics, id,
                               [title |-> <<"T","e","r","r","i","t","o","r","y"," ">> \o id, region |-> region,
                                pop |-> t.pop, biz |-> t.biz,
                                income |-> t.income, status |-> t.status]),
            tidToTokens |-> objPut(tb.tidToTokens, id, tokens),
            tidToStatus |-> objPut(tb.tidToStatus, id, t.status)]

\* main.ts:138, for (const raw of lines)
RECURSIVE compileRows(_, _, _)
compileRows(ix, tb, lines) ==
  IF lines = <<>> THEN tb
  ELSE compileRows(ix, compileRow(ix, tb, Head(lines)), Tail(lines))

\* ------------------------------------------------- colours (202-208)
palette ==
  <<"#4e79a7", "#f28e2b", "#e15759", "#76b7b2", "#59a14f",
    "#edc948", "#b07aa1", "#ff9da7", "#9c755f", "#bab0ab">>

\* territories.forEach((t, i) => { colourByTid[t.id] = palette[i % palette.length]; })
colourByTidOf(terrs) ==
  [id \in {terrs[i].id : i \in 1..Len(terrs)} |->
     LET last == CHOOSE i \in 1..Len(terrs) :
                   terrs[i].id = id /\ \A j \in (i + 1)..Len(terrs) : terrs[j].id # id
     IN  palette[((last - 1) % Len(palette)) + 1]]

\* colourByTid[tid] ?? '#cccccc'
colourOf(colourByTid, tid) ==
  IF tid \in DOMAIN colourByTid THEN colourByTid[tid] ELSE "#cccccc"

\* tidToStatus[tid] === 'taken'
isTaken(statusByTid, tid) ==
  tid \in DOMAIN statusByTid /\ statusByTid[tid] = <<"t","a","k","e","n">>

\* ------------------------------------------- expression trees (210-294)
\* A node of a style expression: an operator and its arguments; a bare JSON
\* value is the node "lit".
Lit(v) == [op |-> "lit", args |-> <<v>>]
Node(op, args) == [op |-> op, args |-> args]

\* main.ts:56 and 211, ['upcase', ['get', codeProp]]
codeProp == "name"
CODE_U == Node("upcase", <<Node("get", <<Lit(codeProp)>>)>>)

\* ['==', ['slice', CODE_U, 0, prefix.length], prefix]
prefixCond(prefix) ==
  Node("==", <<Node("slice", <<CODE_U, Lit(0), Lit(Len(prefix))>>), Lit(prefix)>>)

\* main.ts:228-234, the condition of one letter-continuation case
letterCond(prefix) ==
  Node("all",
    <<prefixCond(prefix),
      Node("any",
        <<Node("==", <<Node("length", <<CODE_U>>), Lit(Len(prefix))>>),
          Node("in", <<Node("slice", <<CODE_U, Lit(Len(prefix)), Lit(Len(prefix) + 1)>>),
                       Node("literal", <<AtoZ>>)>>)>>)>>)

\* ['case', c1, o1, ..., cn, on, fallback]
caseExpr(conds, outs, fallback) ==
  Node("case",
    [k \in 1..(2 * Len(conds)) |->
       IF k % 2 = 1 THEN conds[(k + 1) \div 2] ELSE outs[k \div 2]]
    \o <<fallback>>)

\* ['match', input, l1, o1, ..., ln, on, fallback]
matchExpr(input, labels, outs, fallback) ==
  Node("match",
    <<input>>
    \o [k \in 1..(2 * Len(labels)) |->
          IF k % 2 = 1 THEN Lit(labels[(k + 1) \div 2]) ELSE outs[k \div 2]]
    \o <<fallback>>)

\* main.ts:213-221
makeAnyExpr(anyList, colourByTid) ==
  IF Len(anyList) = 0 THEN Lit("#dddddd")
  ELSE caseExpr([i \in 1..Len(anyList) |-> prefixCond(anyList[i].prefix)],
                [i \in 1..Len(anyList) |-> Lit(colourOf(colourByTid, anyList[i].tid))],
                Lit("#dddddd"))

\* Variant of makeLetterExpr whose cases leave out the base-code alternative
\* ['==', ['length', CODE_U], prefix.length] (C1 must tell it from the code's).
makeLetterExpr_NoBase(letterList, colourByTid, anyExpr) ==
  IF Len(letterList) = 0 THEN anyExpr
  ELSE caseExpr([i \in 1..Len(letterList) |->
                   LET prefix == letterList[i].prefix
                   IN  Node("all",
                         <<prefixCond(prefix),
                           Node("in", <<Node("slice", <<CODE_U, Lit(Len(prefix)),
                                                        Lit(Len(prefix) + 1)>>),
                                        Node("literal", <<AtoZ>>)>>)>>)],
                [i \in 1..Len(letterList) |-> Lit(colourOf(colourByTid, letterList[i].tid))],
                anyExpr)

\* main.ts:223-240
makeLetterExpr(letterList, colourByTid, anyExpr) ==
  IF Len(letterList) = 0 THEN anyExpr
  ELSE caseExpr([i \in 1..Len(letterList) |-> letterCond(letterList[i].prefix)],
                [i \in 1..Len(letterList) |-> Lit(colourOf(colourByTid, letterList[i].tid))],
                anyExpr)

\* main.ts:242-250
colorExprOf(tb) ==
  LET colourByTid == colourByTidOf(tb.territories)
      anyExpr     == makeAnyExpr(tb.anyPrefixToTid, colourByTid)
      letterExpr  == makeLetterExpr(tb.letterPrefixToTid, colourByTid, anyExpr)
      entries     == tb.codeToTidExact
  IN  IF Len(entries) > 0
      THEN matchExpr(CODE_U,
                     [i \in 1..Len(entries) |-> entries[i].code],
                     [i \in 1..Len(entries) |-> Lit(colourOf(colourByTid, entries[i].tid))],
                     letterExpr)
      ELSE letterExpr

\* main.ts:254-265
makeAnyTakenExpr(anyList, statusByTid) ==
  IF Len(anyList) = 0 THEN Lit(FALSE)
  ELSE caseExpr([i \in 1..Len(anyList) |-> prefixCond(anyList[i].prefix)],
                [i \in 1..Len(anyList) |-> Lit(isTaken(statusByTid, anyList[i].tid))],
                Lit(FALSE))

\* Variant of makeLetterTakenExpr that leaves the letter tier out of the
\* opacity (C5 must tell it from the code's).
makeLetterTakenExpr_Skip(letterList, statusByTid, anyTakenExpr) == anyTakenExpr

\* main.ts:266-283
makeLetterTakenExpr(letterList, statusByTid, anyTakenExpr) ==
  IF Len(letterList) = 0 THEN anyTakenExpr
  ELSE caseExpr([i \in 1..Len(letterList) |-> letterCond(letterList[i].prefix)],
                [i \in 1..Len(letterList) |-> Lit(isTaken(statusByTid, letterList[i].tid))],
                anyTakenExpr)

\* main.ts:284-292
isTakenExprOf(tb) ==
  LET anyTakenExpr    == makeAnyTakenExpr(tb.anyPrefixToTid, tb.tidToStatus)
      letterTakenExpr == makeLetterTakenExpr(tb.letterPrefixToTid, tb.tidToStatus, anyTakenExpr)
      entries         == tb.codeToTidExact
  IN  IF Len(entries) > 0
      THEN matchExpr(CODE_U,
                     [i \in 1..Len(entries) |-> entries[i].code],
                     [i \in 1..Len(entries) |-> Lit(isTaken(tb.tidToStatus, entries[i].tid))],
                     letterTakenExpr)
      ELSE letterTakenExpr

\* main.ts:294, ['case', isTakenExpr, 0.28, 0.68]
opacityExprOf(tb) == caseExpr(<<isTakenExprOf(tb)>>, <<Lit("0.28")>>, Lit("0.68"))

\* ------------------------------------------- the renderer's evaluation
\* The style expression operators the trees use, as the rendering library
\* evaluates them on the properties of one feature.
RECURSIVE Eval(_, _)
RECURSIVE evalCase(_, _, _)
RECURSIVE evalMatch(_, _, _, _)

evalCase(args, k, props) ==
  IF k >= Len(args) THEN Eval(args[Len(args)], props)
  ELSE IF Eval(args[k], props) THEN Eval(args[k + 1], props)
  ELSE evalCase(args, k + 2, props)

evalMatch(args, input, k, props) ==
  IF k >= Len(args) THEN Eval(args[Len(args)], props)
  ELSE IF Eval(args[k], props) = input THEN Eval(args[k + 1], props)
  ELSE evalMatch(args, input, k + 2, props)

Eval(e, props) ==
  CASE e.op = "lit"     -> e.args[1]
    [] e.op = "literal" -> e.args[1]
    [] e.op = "get"     -> props[Eval(e.args[1], props)]
    [] e.op = "upcase"  -> toUpperCase(Eval(e.args[1], props))
    [] e.op = "slice"   -> slice(Eval(e.args[1], props), Eval(e.args[2], props),
                                 Eval(e.args[3], props))
    [] e.op = "length"  -> Len(Eval(e.args[1], props))
    [] e.op = "=="      -> Eval(e.args[1], props) = Eval(e.args[2], props)
    [] e.op = "in"      -> LET arr == Eval(e.args[2], props)
                               v   == Eval(e.args[1], props)
                           IN  \E i \in 1..Len(arr) : arr[i] = v
    [] e.op = "all"     -> \A i \in 1..Len(e.args) : Eval(e.args[i], props)
    [] e.op = "any"     -> \E i \in 1..Len(e.args) : Eval(e.args[i], props)
    [] e.op = "case"    -> evalCase(e.args, 1, props)
    [] e.op = "match"   -> evalMatch(e.args, Eval(e.args[1], props), 2, props)

\* ------------------------------------------------ click lookup (314-319)
\* Variant of letterMatches that accepts any continuation character (C3 must
\* tell it from the code's test).
letterMatches_AnyNext(code, prefix) == startsWith(code, prefix)

\* code.startsWith(prefix) &&
\*   (code.length === prefix.length || LETTERS.includes(code[prefix.length] ?? ''))
letterMatches(code, prefix) ==
  startsWith(code, prefix)
    /\ (Len(code) = Len(prefix) \/ includes(LETTERS, charAt(code, Len(prefix))))

anyMatches(code, prefix) == startsWith(code, prefix)

\* array.find(pred)?.tid: the tid of the first entry that matches, or undefined
findLetter(list, code) ==
  IF \E i \in 1..Len(list) : letterMatches(code, list[i].prefix)
  THEN list[CHOOSE i \in 1..Len(list) :
              /\ letterMatches(code, list[i].prefix)
              /\ \A j \in 1..(i - 1) : ~letterMatches(code, list[j].prefix)].tid
  ELSE <<>>

\* Variant of findAny that returns the last matching rule (C4 must tell it
\* from Array.prototype.find).
findAny_Last(list, code) ==
  IF \E i \in 1..Len(list) : startsWith(code, list[i].prefix)
  THEN list[CHOOSE i \in 1..Len(list) :
              /\ startsWith(code, list[i].prefix)
              /\ \A j \in (i + 1)..Len(list) : ~startsWith(code, list[j].prefix)].tid
  ELSE <<>>

findAny(list, code) ==
  IF \E i \in 1..Len(list) : anyMatches(code, list[i].prefix)
  THEN list[CHOOSE i \in 1..Len(list) :
              /\ anyMatches(code, list[i].prefix)
              /\ \A j \in 1..(i - 1) : ~anyMatches(code, list[j].prefix)].tid
  ELSE <<>>

\* a ?? b on optional strings
orElse(a, b) == IF a # <<>> THEN a ELSE b

\* Variant of lookupTid that asks the letter tier before the exact table (C2
\* must tell it from the code's order).
lookupTid_LetterFirst(exact, letterList, anyList, code) ==
  orElse(findLetter(letterList, code),
         orElse(exactGet(exact, code), findAny(anyList, code)))

\* main.ts:314-319
lookupTid(exact, letterList, anyList, code) ==
  orElse(exactGet(exact, code),
         orElse(findLetter(letterList, code), findAny(anyList, code)))

\* ------------------------------------------------------------------ inputs
\* main.ts:50-54, the areas of the manifest; one fill layer per area (66-75)
areas == <<"W", "EC">>
fillId(a) == "pcd_" \o a \o "-fill"
pcdFillLayerIds == [i \in 1..Len(areas) |-> fillId(areas[i])]
Layers == {pcdFillLayerIds[i] : i \in 1..Len(pcdFillLayerIds)}

\* First lines of a fetched territories.csv.
HeaderLines ==
  { <<"i","d",",","r","e","g","i","o","n",",","p","r","e","f","i","x","e","s",",","p","o","p",",","b","i","z",",","i","n","c","o","m","e",",","s","t","a","t","u","s">>,
    <<"T","e","r","r","i","t","o","r","y","_","I","D",","," ","R","e","g","i","o","n"," ",",","P","O","S","T","C","O","D","E","S",",","p","o","p","u","l","a","t","i","o","n",",","b","u","s","i","n","e","s","s","e","s",",","a","v","g","_","i","n","c","o","m","e",",","S","t","a","t","u","s">>,
    <<"i","d",",","r","e","g","i","o","n",",","p","r","e","f","i","x","e","s",",","p","o","p",",","b","i","z">>,
    <<"r","e","g","i","o","n",",","p","r","e","f","i","x","e","s",",","p","o","p",",","b","i","z",",","i","n","c","o","m","e",",","s","t","a","t","u","s">>,
    <<"i","d",",","r","e","g","i","o","n",",","p","o","p",",","b","i","z",",","i","n","c","o","m","e",",","s","t","a","t","u","s">>,
    <<"n","a","m","e",",","r","e","g","i","o","n",",","c","o","d","e","s">>,
    <<>> }

\* Data lines of a fetched territories.csv.
RowLines ==
  { <<"T","1",",","L",",","W","1","A","|","w","1","+",",","1","2",",","3",",","4","5",",","T","a","k","e","n">>,
    <<"T","2",",","C",",","W","1","A","|","W","*",",","1","k",",",",","4","5",",">>,
    <<"T","2",",","C",","," ","W","1","+"," ","|"," ","W","*"," ",",","-","5">>,
    <<"T","1",",","L",",","\"","W","+","|","W","A","+","\"",",","1","2",",","3",",","4","5",",","t","a","k","e","n">>,
    <<"T","3",",","N",",","W","A","+","|","W","1","*",",","1",".","5",",","3",",","4","5",",","r","e","s","e","r","v","e","d">>,
    <<"T","3",",","N",",","+","|","*",",","1","2",",","3",",","4","5",",","t","a","k","e","n">>,
    <<" ",",","L",",","W","1","A",",","1","2",",","3",",","4","5",",","t","a","k","e","n">> }

SeqsUpTo(S, n) == UNION {[1..k -> S] : k \in 0..n}

\* The lines of the response body, as text.split(/\r?\n/) yields them.
Bodies ==
  {<<>>} \cup {<<h>> \o rows : h \in HeaderLines, rows \in SeqsUpTo(RowLines, MaxRows)}

\* The district codes of the features a click can hit (their `name` property).
Stems == { <<"W">>, <<"w","1">>, <<"W","1","A">> }
Suffixes == SeqsUpTo({"A", "1"}, MaxSuffixLen)
FeatureNames == {<<>>} \cup {st \o su : st \in Stems, su \in Suffixes}

\* ------------------------------------------------------------------- popup
NoPopup ==
  [kind |-> "none", name |-> <<>>, code |-> <<>>, tid |-> <<>>, title |-> <<>>,
   region |-> <<>>, shown |-> <<>>, more |-> 0, pop |-> Number(<<>>),
   biz |-> Number(<<>>), income |-> <<>>, status |-> <<>>]

\* main.ts:322 and 358, `<strong>${code}</strong>`
codePopup(name, code) == [NoPopup EXCEPT !.kind = "code", !.name = name, !.code = code]

\* main.ts:326-340
territoryPopup(name, code, tid, metrics, tokensByTid) ==
  LET m      == metrics[tid]
      tokens == IF tid \in DOMAIN tokensByTid THEN tokensByTid[tid] ELSE <<>>
      shown  == slice(tokens, 0, 10)
  IN  [kind |-> "territory", name |-> name, code |-> code, tid |-> tid,
       title |-> m.title, region |-> m.region, shown |-> shown,
       more |-> Len(tokens) - Len(shown), pop |-> m.pop, biz |-> m.biz,
       income |-> m.income, status |-> m.status]

\* ------------------------------------------------------------------ actions
DefaultPaint == [color |-> Lit("#cccccc"), opacity |-> Lit("0.68")]

Init ==
  /\ pc = "loading"
  /\ header = <<>>
  /\ territories = <<>>
  /\ codeToTidExact = <<>>
  /\ letterPrefixToTid = <<>>
  /\ anyPrefixToTid = <<>>
  /\ tidToMetrics = <<>>
  /\ tidToTokens = <<>>
  /\ tidToStatus = <<>>
  /\ paint = [l \in Layers |-> DefaultPaint]
  /\ handlers = "none"
  /\ popup = NoPopup

\* main.ts:351-361
wireCodeOnlyPopups ==
  /\ handlers' = "codeOnly"
  /\ pc' = "fallback"
  /\ UNCHANGED <<territories, codeToTidExact, letterPrefixToTid, anyPrefixToTid,
                 tidToMetrics, tidToTokens, tidToStatus, paint, popup>>

\* main.ts:96-97, the response is not ok
FetchNotOk ==
  /\ pc = "loading"
  /\ wireCodeOnlyPopups
  /\ UNCHANGED header

\* main.ts:99-101, the body holds no non-empty line
LoadEmpty(body) ==
  /\ pc = "loading"
  /\ filterNonEmpty(body) = <<>>
  /\ wireCodeOnlyPopups
  /\ UNCHANGED header

\* main.ts:104-121, a required column is missing from the header
LoadSchemaInvalid(body) ==
  /\ pc = "loading"
  /\ filterNonEmpty(body) # <<>>
  /\ missingRequired(columnIndexes(Head(filterNonEmpty(body))))
  /\ header' = Head(filterNonEmpty(body))
  /\ wireCodeOnlyPopups

\* main.ts:99-200, the header is accepted and every line is compiled
LoadCsv(body) ==
  /\ pc = "loading"
  /\ filterNonEmpty(body) # <<>>
  /\ LET lines == filterNonEmpty(body)
         ix    == columnIndexes(Head(lines))
         tb    == compileRows(ix, EmptyTables, Tail(lines))
     IN  /\ ~missingRequired(ix)
         /\ header' = Head(lines)
         /\ territories' = tb.territories
         /\ codeToTidExact' = tb.codeToTidExact
         /\ letterPrefixToTid' = tb.letterPrefixToTid
         /\ anyPrefixToTid' = tb.anyPrefixToTid
         /\ tidToMetrics' = tb.tidToMetrics
         /\ tidToTokens' = tb.tidToTokens
         /\ tidToStatus' = tb.tidToStatus
  /\ pc' = "compiled"
  /\ UNCHANGED <<paint, handlers, popup>>

\* The tables of the current state as one value.
currentTables ==
  [territories |-> territories, codeToTidExact |-> codeToTidExact,
   letterPrefixToTid |-> letterPrefixToTid, anyPrefixToTid |-> anyPrefixToTid,
   tidToMetrics |-> tidToMetrics, tidToTokens |-> tidToTokens,
   tidToStatus |-> tidToStatus]

\* main.ts:202-342: the expressions are built and set on every fill layer,
\* and the click handlers are registered
StyleAndWire ==
  /\ pc = "compiled"
  /\ paint' = [l \in Layers |-> [color |-> colorExprOf(currentTables),
                                 opacity |-> opacityExprOf(currentTables)]]
  /\ handlers' = "territory"
  /\ pc' = "wired"
  /\ UNCHANGED <<header, territories, codeToTidExact, letterPrefixToTid,
                 anyPrefixToTid, tidToMetrics, tidToTokens, tidToStatus, popup>>

\* Variant of Click that caches the territory it found in the exact table (C8
\* must tell it from the code's handler, which only reads the tables).
Click_Memo(name) ==
  /\ pc = "wired"
  /\ handlers = "territory"
  /\ LET code == toUpperCase(name)
         tid  == lookupTid(codeToTidExact, letterPrefixToTid, anyPrefixToTid, code)
     IN  /\ popup' = IF code = <<>> THEN popup
                     ELSE IF tid = <<>> THEN codePopup(name, code)
                     ELSE territoryPopup(name, code, tid, tidToMetrics, tidToTokens)
         /\ codeToTidExact' = IF code = <<>> \/ tid = <<>> THEN codeToTidExact
                              ELSE exactPut(codeToTidExact, code, tid)
  /\ UNCHANGED <<pc, header, territories, letterPrefixToTid, anyPrefixToTid,
                 tidToMetrics, tidToTokens, tidToStatus, paint, handlers>>

\* main.ts:308-341, a click on a feature of a fill layer (every fill layer
\* has the same handler)
Click(name) ==
  /\ pc = "wired"
  /\ handlers = "territory"
  /\ LET code == toUpperCase(name)
         tid  == lookupTid(codeToTidExact, letterPrefixToTid, anyPrefixToTid, code)
     IN  popup' = IF code = <<>> THEN popup
                  ELSE IF tid = <<>> THEN codePopup(name, code)
                  ELSE territoryPopup(name, code, tid, tidToMetrics, tidToTokens)
  /\ UNCHANGED <<pc, header, territories, codeToTidExact, letterPrefixToTid,
                 anyPrefixToTid, tidToMetrics, tidToTokens, tidToStatus, paint, handlers>>

\* main.ts:355-359, a click while only the fallback popups are wired
ClickCodeOnly(name) ==
  /\ pc = "fallback"
  /\ handlers = "codeOnly"
  /\ popup' = codePopup(name, name)
  /\ UNCHANGED <<pc, header, territories, codeToTidExact, letterPrefixToTid,
                 anyPrefixToTid, tidToMetrics, tidToTokens, tidToStatus, paint, handlers>>

Next ==
  \/ FetchNotOk
  \/ \E body \in Bodies : LoadEmpty(body)
  \/ \E body \in Bodies : LoadSchemaInvalid(body)
  \/ \E body \in Bodies : LoadCsv(body)
  \/ StyleAndWire
  \/ \E name \in FeatureNames : Click(name)
  \/ \E name \in FeatureNames : ClickCodeOnly(name)

Spec == Init /\ [][Next]_vars

\* ================================================================= claims
\* What the claims speak of, stated without the operators of the lookup and
\* of the expression builder.
UpperLetters == {LETTERS[i] : i \in 1..Len(LETTERS)}
IsPrefixOf(p, c) == Len(p) <= Len(c) /\ \A i \in 1..Len(p) : c[i] = p[i]
LetterCovers(p, c) ==
  IsPrefixOf(p, c) /\ (Len(c) = Len(p) \/ c[Len(p) + 1] \in UpperLetters)
AnyCovers(p, c) == IsPrefixOf(p, c)

\* The rules of one kind in declaration order: row by row, and token by token
\* within a row ("+" letter continuation, "*" any continuation, "" exact).
RECURSIVE DeclaredRules(_, _)
DeclaredRules(terrs, marker) ==
  IF terrs = <<>> THEN <<>>
  ELSE LET t    == Head(terrs)
           last(tok) == tok[Len(tok)]
           mine == SelectSeq(t.tokens,
                     LAMBDA tok : IF marker = "" THEN last(tok) \notin {"+", "*"}
                                  ELSE last(tok) = marker)
       IN  [i \in 1..Len(mine) |->
              [prefix |-> IF marker = "" THEN mine[i]
                          ELSE SubSeq(mine[i], 1, Len(mine[i]) - 1),
               tid |-> t.id]]
           \o DeclaredRules(Tail(terrs), marker)

LetterCovering(rules, c) == {i \in 1..Len(rules) : LetterCovers(rules[i].prefix, c)}
AnyCovering(rules, c) == {i \in 1..Len(rules) : AnyCovers(rules[i].prefix, c)}
Min(S) == CHOOSE x \in S : \A y \in S : x <= y
Max(S) == CHOOSE x \in S : \A y \in S : x >= y
InExactTable(c) == \E i \in 1..Len(codeToTidExact) : codeToTidExact[i].code = c

\* A click has been answered by the handler of a finished load: popup.code is
\* the code looked up and popup.tid the territory found (<<>>: none).
Answered == pc = "wired" /\ popup.kind \in {"code", "territory"}
RulesBuilt == pc \in {"compiled", "wired"}
DefaultColours == {"#dddddd", "#cccccc"}
feature == [name |-> popup.name]
TAKEN == <<"t","a","k","e","n">>
\* Every stored rule has a code or a prefix (the rule sets the witnesses show).
NoEmptyRule ==
  /\ \A i \in 1..Len(letterPrefixToTid) : Len(letterPrefixToTid[i].prefix) > 0
  /\ \A i \in 1..Len(anyPrefixToTid) : Len(anyPrefixToTid[i].prefix) > 0

\* C1: on every fill layer, the colour expression evaluated on the clicked
\* feature is the colour of the territory the click lookup found, and it is a
\* default colour exactly when the lookup found no territory.
C1_ColourMatchesLookup ==
  Answered =>
    \A l \in Layers :
      LET colour == Eval(paint[l].color, feature)
      IN  /\ (popup.tid = <<>>) <=> (colour \in DefaultColours)
          /\ popup.tid # <<>> => colour = colourByTidOf(territories)[popup.tid]

\* C1 witness: a click resolved by the letter-continuation tier of a rule set
\* that also has an exact table and any-continuation rules.
C1_Witness ==
  /\ Answered
  /\ NoEmptyRule
  /\ popup.kind = "territory"
  /\ ~InExactTable(popup.code)
  /\ LetterCovering(letterPrefixToTid, popup.code) # {}
  /\ Len(codeToTidExact) > 0
  /\ Len(anyPrefixToTid) > 0
  /\ Len(territories) > 1

\* C2: a code of the exact table resolves to the exact table's territory
\* whatever continuation rules cover it; a code outside the exact table that a
\* letter rule and an any rule both cover resolves to a covering letter rule.
C2_TierPrecedence ==
  Answered =>
    /\ InExactTable(popup.code) =>
         \E i \in 1..Len(codeToTidExact) :
           codeToTidExact[i].code = popup.code /\ codeToTidExact[i].tid = popup.tid
    /\ (/\ ~InExactTable(popup.code)
        /\ LetterCovering(letterPrefixToTid, popup.code) # {}
        /\ AnyCovering(anyPrefixToTid, popup.code) # {})
       => \E i \in LetterCovering(letterPrefixToTid, popup.code) :
            letterPrefixToTid[i].tid = popup.tid

\* C2 witness: an exact code that a letter rule and an any rule of other
\* territories cover too.
C2_Witness ==
  /\ Answered
  /\ NoEmptyRule
  /\ InExactTable(popup.code)
  /\ \E i \in LetterCovering(letterPrefixToTid, popup.code) :
       letterPrefixToTid[i].tid # popup.tid
  /\ \E i \in AnyCovering(anyPrefixToTid, popup.code) :
       anyPrefixToTid[i].tid # popup.tid

\* C3: outside the exact table, a letter rule takes a code if and only if the
\* code is its prefix or continues it with a letter A-Z: when some letter rule
\* covers the code the territory is that of a covering letter rule, and when
\* none does (a digit follows the prefix) the answer is left to the
\* any-continuation tier.
C3_LetterBoundary ==
  (Answered /\ ~InExactTable(popup.code)) =>
    IF LetterCovering(letterPrefixToTid, popup.code) # {}
    THEN \E i \in LetterCovering(letterPrefixToTid, popup.code) :
           letterPrefixToTid[i].tid = popup.tid
    ELSE IF AnyCovering(anyPrefixToTid, popup.code) # {}
         THEN \E i \in AnyCovering(anyPrefixToTid, popup.code) :
                anyPrefixToTid[i].tid = popup.tid
         ELSE popup.tid = <<>>

\* C3 witness: a code that continues the prefix of a letter rule with a letter
\* and then a digit, resolved to that rule's territory.
C3_Witness ==
  /\ Answered
  /\ NoEmptyRule
  /\ ~InExactTable(popup.code)
  /\ \E i \in 1..Len(letterPrefixToTid) :
       LET p == letterPrefixToTid[i].prefix
       IN  /\ p # <<>>
           /\ Len(popup.code) = Len(p) + 2
           /\ LetterCovers(p, popup.code)
           /\ popup.code[Len(popup.code)] \notin UpperLetters
           /\ popup.tid = letterPrefixToTid[i].tid
           /\ \A j \in 1..Len(letterPrefixToTid) : letterPrefixToTid[j].tid = popup.tid

\* C4: within the letter tier and within the any tier, the territory is that
\* of the covering rule declared first in the CSV, whatever the prefix lengths.
C4_FirstDeclaredWins ==
  (Answered /\ ~InExactTable(popup.code)) =>
    LET letters == DeclaredRules(territories, "+")
        anys    == DeclaredRules(territories, "*")
    IN  IF LetterCovering(letters, popup.code) # {}
        THEN popup.tid = letters[Min(LetterCovering(letters, popup.code))].tid
        ELSE AnyCovering(anys, popup.code) # {}
             => popup.tid = anys[Min(AnyCovering(anys, popup.code))].tid

\* C4 witness: two any rules of different territories cover the code, the
\* later one with the longer prefix, and the earlier one wins.
C4_Witness ==
  /\ Answered
  /\ NoEmptyRule
  /\ ~InExactTable(popup.code)
  /\ LetterCovering(letterPrefixToTid, popup.code) = {}
  /\ LET anys == DeclaredRules(territories, "*")
     IN  \E i, j \in AnyCovering(anys, popup.code) :
           /\ i < j
           /\ Len(anys[i].prefix) < Len(anys[j].prefix)
           /\ anys[i].tid # anys[j].tid
           /\ popup.tid = anys[i].tid

\* C5: on every fill layer the opacity expression is 0.28 if and only if the
\* click lookup found a territory whose status is 'taken', and 0.68 otherwise.
C5_OpacityMatchesStatus ==
  Answered =>
    \A l \in Layers :
      Eval(paint[l].opacity, feature) =
        IF popup.tid # <<>> /\ tidToStatus[popup.tid] = TAKEN THEN "0.28" ELSE "0.68"

\* C5 witness: a click resolved by a letter rule to a taken territory.
C5_Witness ==
  /\ Answered
  /\ NoEmptyRule
  /\ popup.kind = "territory"
  /\ popup.status = TAKEN
  /\ ~InExactTable(popup.code)
  /\ LetterCovering(letterPrefixToTid, popup.code) # {}
  /\ \E t \in DOMAIN tidToStatus : tidToStatus[t] # TAKEN

\* Some column of the header line, trimmed and in lower case, is one of names.
HasColumn(hdr, names) ==
  LET cells == split(hdr, ",")
  IN  \E i \in 1..Len(cells), k \in 1..Len(names) :
        toLowerCase(trim(cells[i])) = names[k]
HeaderComplete == HasColumn(header, ALIASES.id) /\ HasColumn(header, ALIASES.pfx)

\* C6: a load that read a header with no identifier column or no token-list
\* column ends with the fallback popups only: no table entry, the default
\* paint on every layer; and a load that built tables read a header with both.
C6_SchemaInvalidFallsBack ==
  /\ (header # <<>> /\ ~HeaderComplete) =>
       /\ pc = "fallback"
       /\ handlers = "codeOnly"
       /\ currentTables = EmptyTables
       /\ \A l \in Layers : paint[l] = DefaultPaint
  /\ RulesBuilt => HeaderComplete

\* C6 witness: a header with a token-list column and no identifier column was
\* read, and a click was answered by the fallback popup.
C6_Witness ==
  /\ header # <<>>
  /\ ~HasColumn(header, ALIASES.id)
  /\ HasColumn(header, ALIASES.pfx)
  /\ pc = "fallback"
  /\ popup.kind = "code"

IsCount(n) == n.kind = "int" /\ n.val >= 0

\* C7: the population and the business count of every compiled territory are
\* non-negative integers (0 when the field is missing or is no number).
C7_MetricsAreCounts ==
  /\ \A i \in 1..Len(territories) :
       IsCount(territories[i].pop) /\ IsCount(territories[i].biz)
  /\ \A t \in DOMAIN tidToMetrics :
       IsCount(tidToMetrics[t].pop) /\ IsCount(tidToMetrics[t].biz)

\* C8: once the tables of a load are built, no step (setting the paint, any
\* click) changes them, and the code of the last answered click still
\* resolves to the territory it was answered with.
C8_TablesFrozen ==
  [][RulesBuilt =>
       /\ tables' = tables
       /\ Answered =>
            lookupTid(codeToTidExact', letterPrefixToTid', anyPrefixToTid', popup.code)
              = popup.tid]_vars

\* C8 witness: a click was answered with a territory after the paint was set.
C8_Witness ==
  /\ Answered
  /\ NoEmptyRule
  /\ popup.kind = "territory"
  /\ Len(letterPrefixToTid) > 0
  /\ \A l \in Layers : paint[l] # DefaultPaint

\* C9: no code of the exact table and no prefix of the letter and any lists is
\* the empty string.
C9_RulesNonEmpty ==
  /\ \A i \in 1..Len(codeToTidExact) : codeToTidExact[i].code # <<>>
  /\ \A i \in 1..Len(letterPrefixToTid) : letterPrefixToTid[i].prefix # <<>>
  /\ \A i \in 1..Len(anyPrefixToTid) : anyPrefixToTid[i].prefix # <<>>

\* C10: the exact table holds one entry per code, that of the last row that
\* declares the code, and a click on such a code and the colour of its feature
\* resolve to that last row's territory.
C10_ExactLastWins ==
  LET exacts == DeclaredRules(territories, "")
      declaring(c) == {i \in 1..Len(exacts) : exacts[i].prefix = c}
  IN  /\ \A i, j \in 1..Len(codeToTidExact) :
           codeToTidExact[i].code = codeToTidExact[j].code => i = j
      /\ \A i \in 1..Len(exacts) :
           \E k \in 1..Len(codeToTidExact) :
             /\ codeToTidExact[k].code = exacts[i].prefix
             /\ codeToTidExact[k].tid = exacts[Max(declaring(exacts[i].prefix))].tid
      /\ (Answered /\ declaring(popup.code) # {}) =>
           LET owner == exacts[Max(declaring(popup.code))].tid
           IN  /\ popup.tid = owner
               /\ \A l \in Layers :
                    Eval(paint[l].color, feature) = colourByTidOf(territories)[owner]

\* C10 witness: a click on an exact code that two rows of different
\* territories declare, answered with the later row's territory.
C10_Witness ==
  /\ Answered
  /\ NoEmptyRule
  /\ LET exacts == DeclaredRules(territories, "")
     IN  \E i, j \in 1..Len(exacts) :
           /\ i < j
           /\ exacts[i].prefix = popup.code
           /\ exacts[j].prefix = popup.code
           /\ exacts[i].tid # exacts[j].tid
           /\ popup.tid = exacts[j].tid
           /\ \A k \in (j + 1)..Len(exacts) : exacts[k].prefix # popup.code

====
